---- MODULE Spec2Model ----
(***************************************************************************)
(* Personal Expense Tracker (firstproject.py): a Streamlit script that is  *)
(* re-run top to bottom on every user interaction.  The state is the       *)
(* SQLite store expenses.db (its catalogue of tables and their rows), the  *)
(* random generator, the widgets' values of the current script run, the   *)
(* position of the run, what the run has displayed, and the connections    *)
(* that were opened and never closed.                                      *)
(***************************************************************************)
EXTENDS Integers, Sequences, FiniteSets, TLC

(* ---------------------------- bounds ---------------------------------- *)
MaxMonth    == 2   \* the user selects months 1..MaxMonth in the main run
MaxBatches  == 2   \* Generate is pressed at most this many times
MaxSeed     == 0   \* initial generator states 0..MaxSeed
MaxGenSeed  == 8   \* initial generator states 0..MaxGenSeed of SpecGen
MaxUnclosed == 0   \* a run starts only with at most this many unclosed connections

(* ------------------------ calendar, generator ------------------------- *)
MonthNames ==
    << "January", "February", "March", "April", "May", "June", "July",
       "August", "September", "October", "November", "December" >>

\* calendar.month_name[i]: index 0 is the empty string
month_name(i) == IF i = 0 THEN "" ELSE MonthNames[i]

Year == 2024

isleap(y) == (y % 4 = 0) /\ ((y % 100 # 0) \/ (y % 400 = 0))

mdays == << 31, 28, 31, 30, 31, 30, 31, 31, 30, 31, 30, 31 >>

\* calendar.monthrange(year, month)[1]
monthrange_31(y, m) == 31
monthrange(y, m) == mdays[m] + (IF m = 2 /\ isleap(y) THEN 1 ELSE 0)

categories ==
    << "Food", "Transportation", "Bills", "Groceries", "Entertainment",
       "Investments", "School FEES", "College FEES", "Fruits & Vegetables",
       "Stationery", "Subscriptions", "Sports & Fitness", "Home Essentials" >>

payment_modes ==
    << "Cash", "Online", "Credit Card", "Debit Card", "Wallet",
       "Net Banking", "UPI" >>

descriptions ==
    << "Investment in mutual funds", "Paid school fees", "Bought groceries",
       "Dining out with family", "Purchased new stationery",
       "Monthly subscription fee", "Gym membership renewal",
       "Home improvement essentials" >>

BatchSize == 100

\* The generators (random, Faker) are a state that every draw advances.
RngMod == 65536
Stride == 40503
DrawsPerRecord == 6

Draw(g, k) == (g + k * Stride) % RngMod

\* fake.date_between_dates(date_start, date_end): a date of [start, end]
date_between_dates(dstart, dend, u) ==
    [y |-> dstart.y, m |-> dstart.m, d |-> dstart.d + (u % (dend.d - dstart.d + 1))]

\* random.choice(seq)
choice(seq, u) == seq[(u % Len(seq)) + 1]

\* round(random.uniform(lo, hi), 2), in hundredths
uniform2(lo, hi, u) == lo + (u % (hi - lo + 1))

\* one record of the loop body of generate_data, the i-th of the batch
GenRecord(month, g, i) ==
    LET b == (i - 1) * DrawsPerRecord
    IN  [ Date         |-> date_between_dates(
                               [y |-> Year, m |-> month, d |-> 1],
                               [y |-> Year, m |-> month, d |-> monthrange(Year, month)],
                               Draw(g, b)),
          Category     |-> choice(categories, Draw(g, b + 1)),
          Payment_Mode |-> choice(payment_modes, Draw(g, b + 2)),
          Description  |-> choice(descriptions, Draw(g, b + 3)),
          Amount_Paid  |-> uniform2(1000, 50000, Draw(g, b + 4)),
          Cashback     |-> uniform2(0, 2000, Draw(g, b + 5)),
          Month        |-> month_name(month) ]

\* generate_data(month): the DataFrame of 100 records
generate_data(month, g) == [i \in 1..BatchSize |-> GenRecord(month, g, i)]

\* the generator state after generate_data
AdvanceRng(g) == Draw(g, BatchSize * DrawsPerRecord)

(* ------------------------------ the store ----------------------------- *)
InSeq(x, s) == \E i \in 1..Len(s) : s[i] = x

Occurrences(x, s) == Cardinality({i \in 1..Len(s) : s[i] = x})

SeqToSet(s) == {s[i] : i \in 1..Len(s)}

RemoveName(s, x) == SelectSeq(s, LAMBDA e : e # x)

TableNames == SeqToSet(MonthNames) \cup {"expenses"}

NoMsg == << >>

\* CREATE TABLE [IF NOT EXISTS] name (...) on the catalogue; blocked is TRUE
\* when another connection holds an uncommitted write transaction
CreateTablePlain(cat, name, blocked) ==
    IF InSeq(name, cat.master)
    THEN [master |-> cat.master, err |-> << "table already exists", name >>]
    ELSE IF blocked
         THEN [master |-> cat.master, err |-> << "database is locked" >>]
         ELSE [master |-> Append(cat.master, name), err |-> NoMsg]

CreateTableIfNotExists(cat, name, blocked) ==
    IF InSeq(name, cat.master)
    THEN cat
    ELSE IF blocked
         THEN [master |-> cat.master, err |-> << "database is locked" >>]
         ELSE [master |-> Append(cat.master, name), err |-> NoMsg]

\* the loop of init_db over range(first, 13); the first failing statement
\* raises and ends the loop
RECURSIVE InitLoop(_, _, _)
InitLoop(cat, month, blocked) ==
    IF month > 12 \/ cat.err # NoMsg
    THEN cat
    ELSE InitLoop(CreateTableIfNotExists(cat, month_name(month), blocked),
                  month + 1, blocked)

init_db_from_february(m, blocked) == InitLoop([master |-> m, err |-> NoMsg], 2, blocked)
init_db(m, blocked) == InitLoop([master |-> m, err |-> NoMsg], 1, blocked)

\* DataFrame.to_sql(name, conn, if_exists=..., index=False)
to_sql_replace(m, r, df, name, blocked) ==
    IF blocked
    THEN [master |-> m, rows |-> r, err |-> << "database is locked" >>]
    ELSE [master |-> IF InSeq(name, m) THEN m ELSE Append(m, name),
          rows   |-> [r EXCEPT ![name] = df],
          err    |-> NoMsg]

to_sql_append(m, r, df, name, blocked) ==
    IF blocked
    THEN [master |-> m, rows |-> r, err |-> << "database is locked" >>]
    ELSE [master |-> IF InSeq(name, m) THEN m ELSE Append(m, name),
          rows   |-> [r EXCEPT ![name] = r[name] \o df],
          err    |-> NoMsg]

\* load_data_to_db(data, month); closed is FALSE when conn.close() is not reached
load_data_to_db_next_month(m, r, df, month, blocked) ==
    LET w == to_sql_append(m, r, df, month_name((month % 12) + 1), blocked)
    IN  [master |-> w.master, rows |-> w.rows, err |-> w.err,
         closed |-> (w.err = NoMsg)]

load_data_to_db(m, r, df, month, blocked) ==
    LET w == to_sql_append(m, r, df, month_name(month), blocked)
    IN  [master |-> w.master, rows |-> w.rows, err |-> w.err,
         closed |-> (w.err = NoMsg)]

(* ------------------------------ SQL texts ----------------------------- *)
\* an SQL text, by what the engine does with it
Stmt(kind, table) ==
    [kind |-> kind, table |-> table, group |-> "", where |-> "", limit |-> 0]

Select(table, group, where, limit) ==
    [kind |-> "select", table |-> table, group |-> group, where |-> where,
     limit |-> limit]

SQL_QUERIES_on_January ==
    [ l \in { "Total Amount Spent per Category", "Monthly Spending Breakdown",
              "Top 5 Highest Expenses", "Cash vs Online Transactions",
              "Average Cashback by Category", "Spending Trends Over Time",
              "Top Spending Days", "Average Spending by Month",
              "Category Breakdown for January", "Highest Cashback Transactions",
              "Transactions Above 300", "Most Frequently Used Payment Mode",
              "Least Spent Categories", "Daily Average Spending",
              "Weekly Spending Trends", "Category-Wise Transaction Count" }
      |-> Select("January", "Category", "", 0) ]

SQL_QUERIES ==
    ( "Total Amount Spent per Category"    :> Select("expenses", "Category", "", 0)
   @@ "Monthly Spending Breakdown"         :> Select("expenses", "Month", "", 0)
   @@ "Top 5 Highest Expenses"             :> Select("expenses", "", "", 5)
   @@ "Cash vs Online Transactions"        :> Select("expenses", "Payment_Mode", "", 0)
   @@ "Average Cashback by Category"       :> Select("expenses", "Category", "", 0)
   @@ "Spending Trends Over Time"          :> Select("expenses", "Date", "", 0)
   @@ "Top Spending Days"                  :> Select("expenses", "Date", "", 10)
   @@ "Average Spending by Month"          :> Select("expenses", "Month", "", 0)
   @@ "Category Breakdown for January"     :> Select("January", "Category", "", 0)
   @@ "Highest Cashback Transactions"      :> Select("expenses", "", "", 5)
   @@ "Transactions Above 300"             :> Select("expenses", "", "Amount_Paid > 300", 0)
   @@ "Most Frequently Used Payment Mode"  :> Select("expenses", "Payment_Mode", "", 1)
   @@ "Least Spent Categories"             :> Select("expenses", "Category", "", 5)
   @@ "Daily Average Spending"             :> Select("expenses", "Date", "", 0)
   @@ "Weekly Spending Trends"             :> Select("expenses", "Week_Number", "", 0)
   @@ "Category-Wise Transaction Count"    :> Select("expenses", "Category", "", 0) )

QueryNames == DOMAIN SQL_QUERIES

\* the query of the View Data mode
ViewQuery(month) == Select(month_name(month), "", "", 0)

\* the query of the Visualize Insights mode
VisualizeQuery == Select("expenses", "Category", "", 0)

\* texts the user types into the Run SQL Query box
FreeTexts ==
    { Stmt("malformed", ""),
      Select("January", "", "", 0),
      Select("expenses", "", "", 0),
      Stmt("delete", "January"),
      Stmt("drop", "January"),
      Stmt("create", "expenses") }

\* day of the year, from 0, of a date of 2024
RECURSIVE DaysBefore(_)
DaysBefore(m) == IF m = 1 THEN 0 ELSE DaysBefore(m - 1) + monthrange(Year, m - 1)

\* strftime('%W', Date): 2024-01-01 is a Monday
WeekNumber(date) == ((DaysBefore(date.m) + date.d - 1) \div 7) + 1

GroupKey(row, col) == IF col = "Week_Number" THEN WeekNumber(row.Date) ELSE row[col]

Min(a, b) == IF a <= b THEN a ELSE b

\* number of rows a SELECT returns on the rows of its table
ResultRows(q, trows) ==
    LET kept == IF q.where = "" THEN trows
                ELSE SelectSeq(trows, LAMBDA r : r.Amount_Paid > 30000)
        n    == IF q.group = "" THEN Len(kept)
                ELSE Cardinality({GroupKey(kept[i], q.group) : i \in 1..Len(kept)})
    IN  IF q.limit > 0 THEN Min(n, q.limit) ELSE n


(* --------------------------- query execution -------------------------- *)
NeedsTable(q) == q.kind \in {"select", "delete", "drop"}

\* cursor.execute(sql) on a fresh connection of the sqlite3 module: DDL runs
\* in autocommit, INSERT/UPDATE/DELETE open a transaction that only
\* conn.commit() would make durable
Execute(q, m, r, blocked) ==
    LET fail(msg) == [err |-> msg, nrows |-> 0, master |-> m, rows |-> r, tx |-> FALSE]
        ok(n, m2, r2, t) == [err |-> NoMsg, nrows |-> n, master |-> m2, rows |-> r2, tx |-> t]
    IN  IF q.kind = "malformed" THEN fail(<< "syntax error" >>)
        ELSE IF NeedsTable(q) /\ ~InSeq(q.table, m)
             THEN fail(<< "no such table", q.table >>)
        ELSE IF q.kind = "select" THEN ok(ResultRows(q, r[q.table]), m, r, FALSE)
        ELSE IF q.kind = "create" /\ InSeq(q.table, m)
             THEN fail(<< "table already exists", q.table >>)
        ELSE IF blocked THEN fail(<< "database is locked" >>)
        ELSE IF q.kind = "delete" THEN ok(0, m, r, TRUE)
        ELSE IF q.kind = "drop"
             THEN ok(0, RemoveName(m, q.table), [r EXCEPT ![q.table] = << >>], FALSE)
        ELSE ok(0, Append(m, q.table), r, FALSE)

\* query_data(query): connect, pd.read_sql_query, close, return.  read_sql_query
\* executes the text and then reads cursor.description, which is None for a
\* text that returns no rows.  closed is FALSE when line 73 is not reached.
query_data(q, m, r, blocked) ==
    LET e == Execute(q, m, r, blocked)
    IN  IF e.err # NoMsg
        THEN [err |-> e.err, nrows |-> 0, master |-> m, rows |-> r,
              closed |-> FALSE, tx |-> FALSE]
        ELSE IF q.kind # "select"
        THEN [err |-> << "'NoneType' object is not iterable" >>, nrows |-> 0,
              master |-> e.master, rows |-> e.rows, closed |-> FALSE, tx |-> e.tx]
        ELSE [err |-> NoMsg, nrows |-> e.nrows, master |-> m, rows |-> r,
              closed |-> TRUE, tx |-> FALSE]

(* ------------------------------- state -------------------------------- *)
VARIABLES
    master,      \* sqlite_master: the names of the tables, in creation order
    rows,        \* the committed rows of each table
    rng,         \* the state of the random generators
    pc,          \* "idle" (between runs) | "init_db" (line 156 is next) |
                 \* "aborted" (an exception left the script)
    firstRun,    \* no script run has started yet in the session
    inp,         \* the values the widgets returned to the current run
    data,        \* the DataFrame generate_data returned in the current run
    display,     \* what the current run has shown so far
    unclosed,    \* connections opened, never closed, not yet finalised
    writer,      \* one of them holds an uncommitted write transaction
    ingested,    \* per month, how many times Generate was pressed
    freeTextRun  \* a Run SQL Query text has been executed

vars == << master, rows, rng, pc, firstRun, inp, data, display,
           unclosed, writer, ingested, freeTextRun >>

Options ==
    << "Generate Data", "View Data", "Visualize Insights", "Run SQL Query",
       "Predefined SQL Queries" >>

NoQuery == Stmt("malformed", "")

FirstQueryName == "Total Amount Spent per Category"

Widgets(option, month, button, query, query_name) ==
    [option |-> option, month |-> month, button |-> button, query |-> query,
     query_name |-> query_name]

\* what the widgets return in the first run of a session: the first option
\* of each selectbox, an unpressed button
DefaultWidgets == Widgets(Options[1], 1, FALSE, NoQuery, FirstQueryName)

Shown(kind, nrows, msg) == [kind |-> kind, nrows |-> nrows, msg |-> msg]

Nothing == Shown("none", 0, NoMsg)

RECURSIVE SumUpTo(_, _)
SumUpTo(f, n) == IF n = 0 THEN 0 ELSE f[n] + SumUpTo(f, n - 1)

Pressed == SumUpTo(ingested, 12)

UserMonths == 1..MaxMonth

\* the widget values a rerun can carry
WidgetValues ==
    {Widgets("Generate Data", m, b, NoQuery, FirstQueryName) :
        m \in UserMonths, b \in BOOLEAN}
    \cup {Widgets("View Data", m, FALSE, NoQuery, FirstQueryName) : m \in UserMonths}
    \cup {Widgets("Visualize Insights", 1, FALSE, NoQuery, FirstQueryName)}
    \cup {Widgets("Run SQL Query", 1, FALSE, NoQuery, FirstQueryName)}
    \cup {Widgets("Run SQL Query", 1, TRUE, q, FirstQueryName) : q \in FreeTexts}
    \cup {Widgets("Predefined SQL Queries", 1, FALSE, NoQuery, FirstQueryName)}
    \cup {Widgets("Predefined SQL Queries", 1, TRUE, NoQuery, n) : n \in QueryNames}

EmptyRows == [t \in TableNames |-> << >>]

Init ==
    /\ master = << >>
    /\ rows = EmptyRows
    /\ rng \in 0..MaxSeed
    /\ pc = "idle"
    /\ firstRun = TRUE
    /\ inp = DefaultWidgets
    /\ data = << >>
    /\ display = Nothing
    /\ unclosed = 0
    /\ writer = FALSE
    /\ ingested = [m \in 1..12 |-> 0]
    /\ freeTextRun = FALSE

(* ------------------------------ actions ------------------------------- *)
\* A user interaction (or the opening of the page) starts a script run with
\* the widget values w; the first run of a session gets the defaults.  The
\* run is single-threaded: from its start to the end of the selected mode's
\* branch nothing else acts, so each mode is one action.
BeginRun(w, option) ==
    /\ pc = "idle"
    /\ unclosed <= MaxUnclosed
    /\ w.option = option
    /\ firstRun => w = DefaultWidgets
    /\ inp' = w
    /\ firstRun' = FALSE

\* the try/except of the mode, if it has one
CatchesNone(option) == FALSE
CatchesAll(option) == TRUE
Catches(option) == option = "Run SQL Query"

\* a mode calls query_data and shows the result, or the error
RunQuery(option, q, kind) ==
    LET res == query_data(q, master, rows, writer)
    IN  /\ master' = res.master
        /\ rows' = res.rows
        /\ unclosed' = unclosed + (IF res.closed THEN 0 ELSE 1)
        /\ writer' = (writer \/ res.tx)
        /\ IF res.err = NoMsg
           THEN /\ display' = Shown(kind, res.nrows, NoMsg)
                /\ pc' = "init_db"
           ELSE IF Catches(option)
           THEN /\ display' = Shown("error", 0, res.err)
                /\ pc' = "init_db"
           ELSE /\ display' = Shown("exception", 0, res.err)
                /\ pc' = "aborted"

\* a mode whose button is not pressed only draws its widgets
Skip ==
    /\ pc' = "init_db"
    /\ display' = Nothing
    /\ data' = << >>
    /\ UNCHANGED << master, rows, rng, unclosed, writer, ingested, freeTextRun >>

HeadRows == 5

GenerateFrom(w, cap) ==
        /\ BeginRun(w, "Generate Data")
        /\ IF w.button
           THEN LET df == generate_data(w.month, rng)
                    l  == load_data_to_db(master, rows, df, w.month, writer)
                IN  /\ Pressed < cap
                    /\ data' = df
                    /\ rng' = AdvanceRng(rng)
                    /\ master' = l.master
                    /\ rows' = l.rows
                    /\ ingested' = [ingested EXCEPT ![w.month] = @ + 1]
                    /\ unclosed' = unclosed + (IF l.closed THEN 0 ELSE 1)
                    /\ IF l.err = NoMsg
                       THEN /\ display' = Shown("success", Min(HeadRows, Len(df)), NoMsg)
                            /\ pc' = "init_db"
                       ELSE /\ display' = Shown("exception", 0, l.err)
                            /\ pc' = "aborted"
                    /\ UNCHANGED << writer, freeTextRun >>
           ELSE Skip

GenerateData == \E w \in WidgetValues : GenerateFrom(w, MaxBatches)

ViewData ==
    \E w \in WidgetValues :
        /\ BeginRun(w, "View Data")
        /\ RunQuery(w.option, ViewQuery(w.month), "dataframe")
        /\ data' = << >>
        /\ UNCHANGED << rng, ingested, freeTextRun >>

VisualizeInsights ==
    \E w \in WidgetValues :
        /\ BeginRun(w, "Visualize Insights")
        /\ RunQuery(w.option, VisualizeQuery, "chart")
        /\ data' = << >>
        /\ UNCHANGED << rng, ingested, freeTextRun >>

RunSQLQuery ==
    \E w \in WidgetValues :
        /\ BeginRun(w, "Run SQL Query")
        /\ IF w.button
           THEN /\ RunQuery(w.option, w.query, "dataframe")
                /\ freeTextRun' = TRUE
                /\ data' = << >>
                /\ UNCHANGED << rng, ingested >>
           ELSE Skip

PredefinedSQLQueries ==
    \E w \in WidgetValues :
        /\ BeginRun(w, "Predefined SQL Queries")
        /\ IF w.button
           THEN /\ RunQuery(w.option, SQL_QUERIES[w.query_name], "dataframe")
                /\ data' = << >>
                /\ UNCHANGED << rng, ingested, freeTextRun >>
           ELSE Skip

\* the last statement of the script: init_db(); then the run is over and
\* its variables and its output are those of a finished run
InitDbStep ==
    /\ pc = "init_db"
    /\ LET c == init_db(master, writer)
       IN  /\ master' = c.master
           /\ IF c.err = NoMsg
              THEN /\ pc' = "idle"
                   /\ inp' = DefaultWidgets
                   /\ data' = << >>
                   /\ display' = Nothing
                   /\ UNCHANGED unclosed
              ELSE /\ pc' = "aborted"
                   /\ display' = Shown("exception", 0, c.err)
                   /\ unclosed' = unclosed + 1
                   /\ UNCHANGED << inp, data >>
    /\ UNCHANGED << rows, rng, firstRun, writer, ingested, freeTextRun >>

\* an exception that left the script ends the run: nothing after the
\* raising statement is executed
EndAbortedRun ==
    /\ pc = "aborted"
    /\ pc' = "idle"
    /\ inp' = DefaultWidgets
    /\ data' = << >>
    /\ display' = Nothing
    /\ UNCHANGED << master, rows, rng, firstRun, unclosed, writer,
                    ingested, freeTextRun >>

\* the collector finalises an unclosed connection: it is closed and its
\* uncommitted transaction, if any, is rolled back
Finalize ==
    /\ unclosed > 0
    /\ unclosed' = unclosed - 1
    /\ writer' \in (IF writer THEN (IF unclosed = 1 THEN {FALSE} ELSE BOOLEAN)
                    ELSE {FALSE})
    /\ UNCHANGED << master, rows, rng, pc, firstRun, inp, data, display,
                    ingested, freeTextRun >>

Next ==
    \/ GenerateData
    \/ ViewData
    \/ VisualizeInsights
    \/ RunSQLQuery
    \/ PredefinedSQLQueries
    \/ InitDbStep
    \/ EndAbortedRun
    \/ Finalize

Spec == Init /\ [][Next]_vars

(* ---- generate_data on every month: one press of Generate, any month --- *)
InitGen ==
    /\ master = MonthNames
    /\ rows = EmptyRows
    /\ rng \in 0..MaxGenSeed
    /\ pc = "idle"
    /\ firstRun = FALSE
    /\ inp = DefaultWidgets
    /\ data = << >>
    /\ display = Nothing
    /\ unclosed = 0
    /\ writer = FALSE
    /\ ingested = [m \in 1..12 |-> 0]
    /\ freeTextRun = FALSE

AnyMonthPressed ==
    {Widgets("Generate Data", m, TRUE, NoQuery, FirstQueryName) : m \in 1..12}

GenerateAnyMonth == \E w \in AnyMonthPressed : GenerateFrom(w, 1)

NextGen ==
    \/ GenerateAnyMonth
    \/ InitDbStep

SpecGen == InitGen /\ [][NextGen]_vars

(* ============================ properties ============================== *)
IsPrefix(s, t) == Len(s) <= Len(t) /\ \A i \in 1..Len(s) : s[i] = t[i]

MonthTables == SeqToSet(MonthNames)

\* a run is under way and the action of its mode is over
ModeDone == pc # "idle"

ModeTouchedStore ==
    /\ ModeDone
    /\ \/ inp.option \in {"View Data", "Visualize Insights"}
       \/ inp.button

\* the step is a run from its start to the end of its mode's action
\* (the only other step from "idle", Finalize, lowers unclosed)
ModeStep == pc = "idle" /\ unclosed' >= unclosed

\* the step is the init_db() call at the end of the script
InitStep == pc = "init_db" /\ pc' # "init_db"

\* C1: as long as only the shell's own modes have written the store (no
\* free-text SQL was executed), View Data on month m shows 100 rows for
\* every Generate action on m: ingests add up, nothing is overwritten.
C1_ViewCountsIngested ==
    (ModeDone /\ inp.option = "View Data" /\ ~freeTextRun)
        => /\ display.kind = "dataframe"
           /\ display.nrows = 100 * ingested[inp.month]
           /\ Len(rows[MonthNames[inp.month]]) = 100 * ingested[inp.month]

C1_Witness ==
    /\ ModeDone
    /\ inp.option = "View Data"
    /\ ~freeTextRun
    /\ ingested[inp.month] = 2
    /\ display.nrows = 200

LastDay2024 == << 31, 29, 31, 30, 31, 30, 31, 31, 30, 31, 30, 31 >>

\* C2: generate_data(m) returns exactly 100 records, each with Month the
\* English name of m and a Date from the first to the last day of m in 2024.
C2_GeneratedBatch ==
    (ModeDone /\ inp.option = "Generate Data" /\ inp.button)
        => /\ Len(data) = 100
           /\ \A i \in 1..Len(data) :
                /\ data[i].Month = MonthNames[inp.month]
                /\ data[i].Date.y = 2024
                /\ data[i].Date.m = inp.month
                /\ data[i].Date.d >= 1
                /\ data[i].Date.d <= LastDay2024[inp.month]

C2_Witness ==
    /\ ModeDone
    /\ inp.option = "Generate Data"
    /\ inp.button
    /\ inp.month = 2
    /\ Len(data) = 100
    /\ \E i \in 1..Len(data) : data[i].Date.d = 29
    /\ \E i \in 1..Len(data) : data[i].Date.d = 1

MalformedRun ==
    inp.option = "Run SQL Query" /\ inp.button /\ inp.query.kind = "malformed"

\* C3: a syntactically invalid text in Run SQL Query shows an error, leaves
\* every table unchanged, and the run goes on to its end (init_db, then idle).
C3_InvalidSqlIsHarmless ==
    [][ /\ (ModeStep /\ MalformedRun')
            => /\ display'.kind = "error"
               /\ display'.msg = << "syntax error" >>
               /\ master' = master
               /\ rows' = rows
               /\ pc' = "init_db"
        /\ (InitStep /\ MalformedRun)
            => /\ pc' = "idle"
               /\ rows' = rows
               /\ \A t \in SeqToSet(master) : InSeq(t, master') ]_vars

C3_Witness ==
    /\ MalformedRun
    /\ pc = "init_db"
    /\ display.kind = "error"
    /\ Len(rows["January"]) > 0

\* C4: init_db raises no error, leaves every month name exactly once in
\* the catalogue, duplicates no table, changes no row, and running it
\* again changes nothing.
C4_InitDbIdempotent ==
    [][ InitStep
            => /\ pc' = "idle"
               /\ \A i \in 1..12 : Occurrences(MonthNames[i], master') = 1
               /\ \A t \in SeqToSet(master) : Occurrences(t, master') = 1
               /\ \A i \in 1..Len(master') : Occurrences(master'[i], master') = 1
               /\ rows' = rows
               /\ init_db(master', writer').err = NoMsg
               /\ init_db(master', writer').master = master' ]_vars

C4_Witness ==
    /\ pc = "idle"
    /\ ~firstRun
    /\ Len(rows["February"]) > 0
    /\ Len(master) = 13
    /\ master[12] = "expenses"
    /\ master[13] = "January"

\* C5: in every script run the Schema Initializer has run before the
\* selected mode's action reads from or writes to the store.
C5_InitBeforeModeAction ==
    ~(ModeTouchedStore /\ pc \in {"init_db", "aborted"})

Growing ==
    \A t \in MonthTables :
        /\ IsPrefix(rows[t], rows'[t])
        /\ InSeq(t, master) => InSeq(t, master')

\* C6 (as stated): in all five modes, whatever the SQL text, stored rows
\* are never updated or deleted and no month table is dropped.
C6_AppendOnly == [][Growing]_vars

FreeTextWrite ==
    /\ ModeStep
    /\ inp'.option = "Run SQL Query"
    /\ inp'.button
    /\ inp'.query.kind \notin {"select", "malformed"}

\* C6 (amended): rows only grow and no month table is dropped in every
\* step other than Run SQL Query executing a text that is neither a SELECT
\* nor malformed.
C6_AppendOnlyButFreeText == [][~FreeTextWrite => Growing]_vars

C6_Witness ==
    /\ ModeDone
    /\ inp.option = "Run SQL Query"
    /\ inp.button
    /\ inp.query.kind = "select"
    /\ Len(rows["January"]) = 200

JanuaryQuery == "Category Breakdown for January"

RanExpensesQuery ==
    /\ ModeDone
    /\ \/ inp.option = "Visualize Insights"
       \/ /\ inp.option = "Predefined SQL Queries"
          /\ inp.button
          /\ inp.query_name \in QueryNames \ {JanuaryQuery}

\* C7: the 15 predefined queries on expenses and the Visualize Insights
\* query fail with "no such table: expenses" on a store that has only the
\* twelve month tables, whatever their rows.
C7_ExpensesQueriesFail ==
    /\ Cardinality(QueryNames \ {JanuaryQuery}) = 15
    /\ (RanExpensesQuery /\ SeqToSet(master) = MonthTables)
        => /\ pc = "aborted"
           /\ display.kind = "exception"
           /\ display.msg = << "no such table", "expenses" >>

C7_Witness ==
    /\ ModeDone
    /\ inp.option = "Predefined SQL Queries"
    /\ inp.button
    /\ inp.query_name = "Cash vs Online Transactions"
    /\ SeqToSet(master) = MonthTables
    /\ Len(rows["January"]) > 0
    /\ pc = "aborted"

RanJanuaryQuery ==
    /\ ModeDone
    /\ inp.option = "Predefined SQL Queries"
    /\ inp.button
    /\ inp.query_name = JanuaryQuery
    /\ ~freeTextRun

\* C8 (as stated): the January query fails at runtime on a store that
\* holds only what the initializer and Generate Data produced.
C8_JanuaryQueryFails ==
    RanJanuaryQuery
        => /\ pc = "aborted"
           /\ display.msg = << "no such table", "January" >>

\* C8 (amended): the January query reads a table the initializer creates;
\* on such a store it succeeds with one row per category in January.
C8_JanuaryQuerySucceeds ==
    RanJanuaryQuery
        => /\ pc = "init_db"
           /\ InSeq("January", master)
           /\ display.kind = "dataframe"
           /\ display.nrows =
                Cardinality({rows["January"][i].Category :
                                i \in 1..Len(rows["January"])})

C8_Witness ==
    /\ RanJanuaryQuery
    /\ display.kind = "dataframe"
    /\ display.nrows > 1

\* C9: after any action completes or fails, no connection it opened
\* remains open.
C9_NoConnectionLeftOpen == unclosed = 0

TableNotFound == Len(display.msg) = 2 /\ display.msg[1] = "no such table"

\* C10 (as stated): in whichever mode it arises, a table-not-found error is
\* caught, shown as an error message, and the run is not aborted.
C10_TableNotFoundCaught ==
    (ModeDone /\ TableNotFound) => (display.kind = "error" /\ pc = "init_db")

\* C10 (amended): in Run SQL Query a table-not-found error is handled like
\* malformed SQL (caught, message shown, run continues); in the other
\* modes it is not caught and aborts the script run.
C10_TableNotFoundByMode ==
    /\ (ModeDone /\ TableNotFound /\ inp.option = "Run SQL Query")
        => (display.kind = "error" /\ pc = "init_db")
    /\ (ModeDone /\ TableNotFound /\ inp.option # "Run SQL Query")
        => (display.kind = "exception" /\ pc = "aborted")
    /\ (ModeDone /\ MalformedRun)
        => (display.kind = "error" /\ pc = "init_db")

C10_Witness ==
    /\ TableNotFound
    /\ inp.option = "Run SQL Query"
    /\ display.kind = "error"
    /\ display.msg = << "no such table", "expenses" >>
    /\ pc = "init_db"

====
